---- MODULE Spec2Model ----
(***************************************************************************)
(* MillionBase: the MillionBaseToken claim registry (Solidity) and the     *)
(* client session that caches its state (React, App.tsx).                  *)
(*                                                                         *)
(* Registry: claimedBy, the ERC-20 balances and totalSupply and the        *)
(* Claimed event log.  Calls execute one at a time and atomically (a       *)
(* reverted call changes nothing), as the ledger executes transactions.    *)
(* Spec observes the registry on its own and keeps the receipt of every    *)
(* executed call.                                                          *)
(*                                                                         *)
(* Session: the React state of App, the closure of the last render, the    *)
(* isClaimed queries in flight and the invocations of the claim handler,   *)
(* each suspended at one of its awaits.  SpecSession runs one session      *)
(* against the registry while another account claims cells.  A query's     *)
(* answer is the registry's state when the answer is delivered; an answer  *)
(* read earlier and delivered after a claim changes the session exactly as *)
(* a rejected query does (LookupCatch).                                    *)
(***************************************************************************)
EXTENDS Integers, Sequences, FiniteSets, Bags

\* ---------------------------------------------------------------- bounds
\* The grid has 1 000 000 cells; the model scales the cap down so that the
\* registry can be filled.  MAX_SUPPLY is both the cap and the index range.
MaxCells == 2
\* Number of calls the ledger executes in a behaviour.
MaxCalls == 3
\* Number of isClaimed queries a session has outstanding at a time.
MaxLookups == 2

\* ------------------------------------------------------------- constants
MAX_SUPPLY == MaxCells

\* address(0)
ZERO == 0
\* The deployer, who becomes the Ownable owner.
Deployer == 1
\* Externally owned accounts; msg.sender is never address(0).
Accounts == {1, 2}
Address == Accounts \cup {ZERO}
owner == Deployer

\* Cell indices a caller may pass: the grid plus one index out of range.
Index == 0 .. MAX_SUPPLY
\* Amounts a holder may try to transfer.
Amount == 1 .. 2

\* The cells the grid renders (Cell returns null beyond them).
Cells == 0 .. (MAX_SUPPLY - 1)
\* The cells in the session's viewport: the virtualized grid renders, and the
\* user can click, these only.
Viewport == {0, 1}
\* The account the session's wallet connects.
account == 2
\* Concurrent invocations of the session's claim handler.
Handlers == {1, 2}

VARIABLES
    \* ---- registry (MillionBaseToken.sol)
    claimedBy,      \* mapping(uint256 => address)
    balances,       \* ERC20 _balances
    totalSupply,    \* ERC20 _totalSupply
    events,         \* Claimed(claimer, cellIndex) events, in emission order
    receipts,       \* executed calls with their outcome, in execution order
    \* ---- session (App.tsx), React state
    contract,           \* TRUE once connectWallet has set the signer contract
    uiTotalSupply,      \* useState totalSupply
    uiMaxSupply,        \* useState maxSupply
    txPending,          \* useState txPending
    clicked,            \* useState clicked
    remoteClaimedSet,   \* useState remoteClaimedSet
    \* ---- session, what is in flight
    rendered,       \* the state the callbacks of the last render closed over
    lookups,        \* bag of outstanding isClaimed queries
    calls,          \* the invocations of the claim handler, by slot
    refreshing      \* outstanding refreshSupply calls of the useEffect

regVars == <<claimedBy, balances, totalSupply, events>>
ledgerVars == <<claimedBy, balances, totalSupply, events, receipts>>
uiVars == <<contract, uiTotalSupply, uiMaxSupply, txPending, clicked, remoteClaimedSet>>
sessVars == <<contract, uiTotalSupply, uiMaxSupply, txPending, clicked, remoteClaimedSet,
              rendered, lookups, calls, refreshing>>
vars == <<claimedBy, balances, totalSupply, events, receipts,
          contract, uiTotalSupply, uiMaxSupply, txPending, clicked, remoteClaimedSet,
          rendered, lookups, calls, refreshing>>

\* ---------------------------------------------------------------- views
isClaimed(cellIndex) == claimedBy[cellIndex] # ZERO

\* --------------------------------------------------------------- claim
\* Variant of ClaimOutcome: the holder of a cell may claim it again.
ClaimOutcomeOwnCell(sender, cellIndex) ==
    IF ~(cellIndex < MAX_SUPPLY) THEN "index out of range"
    ELSE IF ~(claimedBy[cellIndex] \in {ZERO, sender}) THEN "already claimed"
    ELSE IF ~(totalSupply < MAX_SUPPLY) THEN "Max supply reached"
    ELSE "ok"

\* Variant of ClaimOutcome: the require on claimedBy is missing.
ClaimOutcomeNoDup(sender, cellIndex) ==
    IF ~(cellIndex < MAX_SUPPLY) THEN "index out of range"
    ELSE IF ~(totalSupply < MAX_SUPPLY) THEN "Max supply reached"
    ELSE "ok"

\* The outcome of claim(cellIndex) called by sender (msg.sender): the first
\* failing require, else "ok".
ClaimOutcome(sender, cellIndex) ==
    IF ~(cellIndex < MAX_SUPPLY) THEN "index out of range"
    ELSE IF ~(claimedBy[cellIndex] = ZERO) THEN "already claimed"
    ELSE IF ~(totalSupply < MAX_SUPPLY) THEN "Max supply reached"
    ELSE "ok"

\* Variant of OwnerClaimOutcome: the range check is off by one.
OwnerClaimOutcomeOffByOne(sender, to, cellIndex) ==
    IF sender # owner THEN "unauthorized"
    ELSE IF ~(cellIndex <= MAX_SUPPLY) THEN "index out of range"
    ELSE IF ~(claimedBy[cellIndex] = ZERO) THEN "already claimed"
    ELSE IF to = ZERO THEN "invalid receiver"
    ELSE "ok"

\* Variant of OwnerClaimOutcome: the require on claimedBy is missing.
OwnerClaimOutcomeNoDup(sender, to, cellIndex) ==
    IF sender # owner THEN "unauthorized"
    ELSE IF ~(cellIndex < MAX_SUPPLY) THEN "index out of range"
    ELSE IF to = ZERO THEN "invalid receiver"
    ELSE "ok"

\* The outcome of ownerClaim(to, cellIndex) called by sender: onlyOwner, the
\* two requires, then _mint, which rejects address(0).
OwnerClaimOutcome(sender, to, cellIndex) ==
    IF sender # owner THEN "unauthorized"
    ELSE IF ~(cellIndex < MAX_SUPPLY) THEN "index out of range"
    ELSE IF ~(claimedBy[cellIndex] = ZERO) THEN "already claimed"
    ELSE IF to = ZERO THEN "invalid receiver"
    ELSE "ok"

\* The outcome of the inherited ERC-20 transfer(to, value) called by sender.
TransferOutcome(sender, to, value) ==
    IF to = ZERO THEN "invalid receiver"
    ELSE IF balances[sender] < value THEN "insufficient balance"
    ELSE "ok"

\* The receipt of an executed call; supply is totalSupply after it.
Receipt(op, sender, to, cellIndex, res, supply) ==
    [op |-> op, sender |-> sender, to |-> to, idx |-> cellIndex, res |-> res,
     supply |-> supply]

\* Variant of SetAndMint: the token is minted, the claimant is not recorded.
SetAndMintNoRecord(to, cellIndex) ==
    /\ claimedBy' = claimedBy
    /\ balances' = [balances EXCEPT ![to] = @ + 1]
    /\ totalSupply' = totalSupply + 1

\* claimedBy[cellIndex] = to; _mint(to, 1)
SetAndMint(to, cellIndex) ==
    /\ claimedBy' = [claimedBy EXCEPT ![cellIndex] = to]
    /\ balances' = [balances EXCEPT ![to] = @ + 1]
    /\ totalSupply' = totalSupply + 1

\* claim(cellIndex) called by sender, with outcome res; a revert changes
\* nothing.
ClaimCall(sender, cellIndex, res) ==
    /\ res = ClaimOutcome(sender, cellIndex)
    /\ IF res = "ok"
       THEN /\ SetAndMint(sender, cellIndex)
            /\ events' = Append(events, <<sender, cellIndex>>)
       ELSE UNCHANGED regVars

\* ownerClaim(to, cellIndex) called by sender.
OwnerClaimCall(sender, to, cellIndex, res) ==
    /\ res = OwnerClaimOutcome(sender, to, cellIndex)
    /\ IF res = "ok"
       THEN /\ SetAndMint(to, cellIndex)
            /\ UNCHANGED events
       ELSE UNCHANGED regVars

\* transfer(to, value) called by sender (ERC20._transfer).
TransferCall(sender, to, value, res) ==
    /\ res = TransferOutcome(sender, to, value)
    /\ IF res = "ok"
       THEN /\ balances' = [balances EXCEPT ![sender] = @ - value, ![to] = @ + value]
            /\ UNCHANGED <<claimedBy, totalSupply, events>>
       ELSE UNCHANGED regVars

Outcomes == {"ok", "index out of range", "already claimed", "Max supply reached",
             "unauthorized", "invalid receiver", "insufficient balance"}

\* The registry observed on its own: each executed call leaves a receipt.
Claim(sender, cellIndex) ==
    /\ Len(receipts) < MaxCalls
    /\ \E res \in Outcomes :
          /\ ClaimCall(sender, cellIndex, res)
          /\ receipts' = Append(receipts, Receipt("claim", sender, sender, cellIndex, res, totalSupply'))
    /\ UNCHANGED sessVars

OwnerClaim(sender, to, cellIndex) ==
    /\ Len(receipts) < MaxCalls
    /\ \E res \in Outcomes :
          /\ OwnerClaimCall(sender, to, cellIndex, res)
          /\ receipts' = Append(receipts, Receipt("ownerClaim", sender, to, cellIndex, res, totalSupply'))
    /\ UNCHANGED sessVars

Transfer(sender, to, value) ==
    /\ Len(receipts) < MaxCalls
    /\ \E res \in Outcomes :
          /\ TransferCall(sender, to, value, res)
          /\ receipts' = Append(receipts, Receipt("transfer", sender, to, value, res, totalSupply'))
    /\ UNCHANGED sessVars

\* Another user's claim, seen from the session: the registry changes, the
\* session does not.
OtherClaim(sender, cellIndex) ==
    /\ \E res \in Outcomes : ClaimCall(sender, cellIndex, res)
    /\ regVars' # regVars
    /\ UNCHANGED <<receipts, sessVars>>

\* ------------------------------------------------------------- session
\* view(i) of the React state: what the next render of cell i shows.
view(i) == (i \in remoteClaimedSet) \/ (i \in clicked)
\* What the claim handler of a render closes over.
Snapshot == [contract |-> contract, txPending |-> txPending]

Idle == [pc |-> "idle", idx |-> 0]

\* The page runs its callbacks one at a time, and none while an alert dialog
\* is open.
Running == \A h \in Handlers : calls[h].pc # "alert"

\* connectWallet, up to setContract(c).
ConnectWallet ==
    /\ Running
    /\ ~contract
    /\ contract' = TRUE
    /\ UNCHANGED <<ledgerVars, uiTotalSupply, uiMaxSupply, txPending, clicked,
                   remoteClaimedSet, rendered, lookups, calls, refreshing>>

\* A query isClaimed(cellIndex), fired and not yet answered.
Query(cellIndex) == [idx |-> cellIndex]

\* let isRemoteClaimed = remoteClaimedSet.has(cellIndex); Cell fires a query
\* for cell i when it renders it and this is false.
Fires(i) == ~(i \in remoteClaimedSet)

\* A render pass: App renders, so the callbacks are re-created over the
\* current state and the effect on [contract, refreshSupply] calls
\* refreshSupply when the contract changed; then the grid renders Cell for
\* its visible cells, and Cell fires a query isClaimed(i) for each of them
\* that remoteClaimedSet does not hold.
Render(visible) ==
    LET fired == {i \in visible : ~(i \in remoteClaimedSet)} IN
    /\ Running
    /\ rendered # Snapshot \/ fired # {}
    /\ BagCardinality(lookups) + Cardinality(fired) <= MaxLookups
    /\ rendered' = Snapshot
    /\ refreshing' = IF rendered.contract # contract THEN refreshing + 1 ELSE refreshing
    /\ lookups' = lookups (+) SetToBag({Query(i) : i \in fired})
    /\ UNCHANGED <<ledgerVars, uiVars, calls>>

\* The effect's refreshSupply resolves: both reads arrive and are stored.
EffectRefreshDone ==
    /\ Running
    /\ refreshing > 0
    /\ refreshing' = refreshing - 1
    /\ uiTotalSupply' = totalSupply
    /\ uiMaxSupply' = MAX_SUPPLY
    /\ UNCHANGED <<ledgerVars, contract, txPending, clicked, remoteClaimedSet,
                   rendered, lookups, calls>>

\* The effect's refreshSupply rejects: nothing is stored.
EffectRefreshFail ==
    /\ Running
    /\ refreshing > 0
    /\ refreshing' = refreshing - 1
    /\ UNCHANGED <<ledgerVars, uiVars, rendered, lookups, calls>>

\* Variant of LookupThen: the updater stores a set of the resolved index
\* alone instead of adding it to the previous set.
LookupThenOverwrite(q) ==
    /\ Running
    /\ BagIn(q, lookups)
    /\ lookups' = lookups (-) SetToBag({q})
    /\ remoteClaimedSet' = IF isClaimed(q.idx) THEN {q.idx} ELSE remoteClaimedSet
    /\ UNCHANGED <<ledgerVars, contract, uiTotalSupply, uiMaxSupply, txPending, clicked,
                   rendered, calls, refreshing>>

\* Variant of LookupThen: the test of the answer is missing.
LookupThenAlways(q) ==
    /\ Running
    /\ BagIn(q, lookups)
    /\ lookups' = lookups (-) SetToBag({q})
    /\ remoteClaimedSet' = remoteClaimedSet \cup {q.idx}
    /\ UNCHANGED <<ledgerVars, contract, uiTotalSupply, uiMaxSupply, txPending, clicked,
                   rendered, calls, refreshing>>

\* Variant of LookupThen: the answer is dropped.
LookupThenNever(q) ==
    /\ Running
    /\ BagIn(q, lookups)
    /\ lookups' = lookups (-) SetToBag({q})
    /\ UNCHANGED <<ledgerVars, uiVars, rendered, calls, refreshing>>

\* The query resolves with the registry's answer:
\* .then((claimed) => { if (claimed) setRemoteClaimedSet(prev => prev + cellIndex) })
LookupThen(q) ==
    /\ Running
    /\ BagIn(q, lookups)
    /\ lookups' = lookups (-) SetToBag({q})
    /\ remoteClaimedSet' = IF isClaimed(q.idx) THEN remoteClaimedSet \cup {q.idx}
                           ELSE remoteClaimedSet
    /\ UNCHANGED <<ledgerVars, contract, uiTotalSupply, uiMaxSupply, txPending, clicked,
                   rendered, calls, refreshing>>

\* Variant of LookupCatch: a rejected query is taken for a claimed cell.
LookupCatchAsClaimed(q) ==
    /\ Running
    /\ BagIn(q, lookups)
    /\ lookups' = lookups (-) SetToBag({q})
    /\ remoteClaimedSet' = remoteClaimedSet \cup {q.idx}
    /\ UNCHANGED <<ledgerVars, contract, uiTotalSupply, uiMaxSupply, txPending, clicked,
                   rendered, calls, refreshing>>

\* The query rejects: .catch(() => {})
LookupCatch(q) ==
    /\ Running
    /\ BagIn(q, lookups)
    /\ lookups' = lookups (-) SetToBag({q})
    /\ UNCHANGED <<ledgerVars, uiVars, rendered, calls, refreshing>>

\* onClick={() => claim(cellIndex)}: the handler of the last render; it
\* returns at once without a contract or with txPending, else sets txPending
\* and calls contract.claim(cellIndex).
FreeSlot(h) == calls[h].pc = "idle" /\ \A g \in Handlers : g < h => calls[g].pc # "idle"

\* Variant of Click: the cell is put in clicked when the claim is requested.
ClickOptimistic(h, cellIndex) ==
    /\ Running
    /\ FreeSlot(h)
    /\ ~(~rendered.contract \/ rendered.txPending)
    /\ txPending' = TRUE
    /\ clicked' = clicked \cup {cellIndex}
    /\ calls' = [calls EXCEPT ![h] = [pc |-> "submit", idx |-> cellIndex]]
    /\ UNCHANGED <<ledgerVars, contract, uiTotalSupply, uiMaxSupply,
                   remoteClaimedSet, rendered, lookups, refreshing>>

Click(h, cellIndex) ==
    /\ Running
    /\ FreeSlot(h)
    /\ ~(~rendered.contract \/ rendered.txPending)
    /\ txPending' = TRUE
    /\ calls' = [calls EXCEPT ![h] = [pc |-> "submit", idx |-> cellIndex]]
    /\ UNCHANGED <<ledgerVars, contract, uiTotalSupply, uiMaxSupply, clicked,
                   remoteClaimedSet, rendered, lookups, refreshing>>

\* catch (err) { console.error(err); alert(err.message) }: the dialog opens
\* and blocks the page until it is dismissed.
Caught(h) ==
    /\ calls' = [calls EXCEPT ![h].pc = "alert"]
    /\ UNCHANGED <<uiVars, rendered, lookups, refreshing>>

\* The dialog is dismissed: finally { setTxPending(false) }
AlertDismiss(h) ==
    /\ calls[h].pc = "alert"
    /\ txPending' = FALSE
    /\ calls' = [calls EXCEPT ![h] = Idle]
    /\ UNCHANGED <<ledgerVars, contract, uiTotalSupply, uiMaxSupply, clicked,
                   remoteClaimedSet, rendered, lookups, refreshing>>

\* await contract.claim(cellIndex) resolves: the transaction is sent.
SubmitOk(h) ==
    /\ Running
    /\ calls[h].pc = "submit"
    /\ calls' = [calls EXCEPT ![h].pc = "wait"]
    /\ UNCHANGED <<ledgerVars, uiVars, rendered, lookups, refreshing>>

\* await contract.claim(cellIndex) rejects (gas estimate reverted, the user
\* refused, the network failed): nothing is sent.
SubmitFail(h) ==
    /\ Running
    /\ calls[h].pc = "submit"
    /\ Caught(h)
    /\ UNCHANGED ledgerVars

\* The ledger executes the session's transaction, claim(idx) by account, and
\* await tx.wait() settles: it resolves when the call succeeded, and then
\* refreshSupply() is called and awaited; it rejects when the call reverted.
TxMined(h) ==
    /\ Running
    /\ calls[h].pc = "wait"
    /\ \E res \in Outcomes :
          /\ ClaimCall(account, calls[h].idx, res)
          /\ calls' = [calls EXCEPT ![h].pc = IF res = "ok" THEN "refresh" ELSE "alert"]
    /\ UNCHANGED <<receipts, uiVars, rendered, lookups, refreshing>>

\* await refreshSupply() resolves; then setClicked(prev => prev + cellIndex)
\* and, in finally, setTxPending(false).
RefreshDone(h) ==
    /\ Running
    /\ calls[h].pc = "refresh"
    /\ uiTotalSupply' = totalSupply
    /\ uiMaxSupply' = MAX_SUPPLY
    /\ clicked' = clicked \cup {calls[h].idx}
    /\ txPending' = FALSE
    /\ calls' = [calls EXCEPT ![h] = Idle]
    /\ UNCHANGED <<ledgerVars, contract, remoteClaimedSet, rendered, lookups,
                   refreshing>>

\* await refreshSupply() rejects: the catch block runs, setClicked does not.
RefreshThrow(h) ==
    /\ Running
    /\ calls[h].pc = "refresh"
    /\ Caught(h)
    /\ UNCHANGED ledgerVars

\* ----------------------------------------------------------------- init
InitLedger ==
    /\ claimedBy = [i \in Index |-> ZERO]
    /\ balances = [a \in Address |-> 0]
    /\ totalSupply = 0
    /\ events = <<>>
    /\ receipts = <<>>

\* The session after the first render: the mount effect has called
\* refreshSupply.
InitSession ==
    /\ contract = FALSE
    /\ uiTotalSupply = 0
    /\ uiMaxSupply = MAX_SUPPLY
    /\ txPending = FALSE
    /\ clicked = {}
    /\ remoteClaimedSet = {}
    /\ rendered = [contract |-> FALSE, txPending |-> FALSE]
    /\ lookups = EmptyBag
    /\ calls = [h \in Handlers |-> Idle]
    /\ refreshing = 1
Init == InitLedger /\ InitSession

\* ------------------------------------------------ the registry on its own
Next ==
    \/ \E a \in Accounts, i \in Index : Claim(a, i)
    \/ \E a \in Accounts, to \in Address, i \in Index : OwnerClaim(a, to, i)
    \/ \E a \in Accounts, to \in Address, v \in Amount : Transfer(a, to, v)

Spec == Init /\ [][Next]_vars

\* ------------------------------------- a session and the other callers
LookupSet == {q \in [idx : Viewport] : BagIn(q, lookups)}

NextSession ==
    \/ ConnectWallet
    \/ \E visible \in SUBSET Viewport : Render(visible)
    \/ EffectRefreshDone
    \/ EffectRefreshFail
    \/ \E q \in LookupSet : LookupThen(q)
    \/ \E q \in LookupSet : LookupCatch(q)
    \/ \E h \in Handlers, i \in Viewport : Click(h, i)
    \/ \E h \in Handlers : SubmitOk(h)
    \/ \E h \in Handlers : SubmitFail(h)
    \/ \E h \in Handlers : TxMined(h)
    \/ \E h \in Handlers : RefreshDone(h)
    \/ \E h \in Handlers : RefreshThrow(h)
    \/ \E h \in Handlers : AlertDismiss(h)
    \/ \E i \in Cells : OtherClaim(Deployer, i)

SpecSession == Init /\ [][NextSession]_vars

\* ------------------------------------------- the session that keeps going
\* Cell renders for cell i and fires its query.
RenderCell(i) == \E visible \in SUBSET Viewport : i \in visible /\ Fires(i) /\ Render(visible)
\* A promise of the page settles: a query resolves or rejects.
LookupSettles == \E q \in LookupSet : LookupThen(q) \/ LookupCatch(q)

\* The session with its claims made one at a time, and the other callers.
NextLive ==
    \/ ConnectWallet
    \/ \E visible \in SUBSET Viewport : Render(visible)
    \/ EffectRefreshDone
    \/ EffectRefreshFail
    \/ \E q \in LookupSet : LookupThen(q)
    \/ \E q \in LookupSet : LookupCatch(q)
    \/ \E i \in Viewport : Click(1, i)
    \/ SubmitOk(1)
    \/ SubmitFail(1)
    \/ TxMined(1)
    \/ RefreshDone(1)
    \/ RefreshThrow(1)
    \/ AlertDismiss(1)
    \/ \E i \in Cells : OtherClaim(Deployer, i)

\* The session keeps rendering each cell of the viewport, every query
\* settles, a query of a cell that is asked again and again resolves at some
\* point, and the user dismisses an alert.
Fairness ==
    /\ \A i \in Viewport : SF_vars(RenderCell(i))
    /\ \A i \in Viewport : SF_vars(LookupThen(Query(i)))
    /\ WF_vars(LookupSettles)
    /\ WF_vars(AlertDismiss(1))

SpecLive == Init /\ [][NextLive]_vars /\ Fairness
\* ================================================================ claims
\* ------------------------------------------------- registry (under Spec)
IsCellCall(r) == r.op \in {"claim", "ownerClaim"}
\* The executed calls on cell i that succeeded.
Wins(i) == {p \in DOMAIN receipts :
              IsCellCall(receipts[p]) /\ receipts[p].idx = i /\ receipts[p].res = "ok"}
\* The executed calls on cell i, whatever their outcome.
Attempts(i) == {p \in DOMAIN receipts : IsCellCall(receipts[p]) /\ receipts[p].idx = i}
\* What call p added to totalSupply.
Minted(p) == receipts[p].supply - (IF p = 1 THEN 0 ELSE receipts[p - 1].supply)
ClaimedCells == {i \in Index : claimedBy[i] # ZERO}
\* The receipt a step appends, when it appends one.
Executes == Len(receipts') = Len(receipts) + 1
Last == receipts'[Len(receipts')]

\* C1: for every index i, among all executed claim(i) and ownerClaim(to, i)
\* calls, by whatever callers and in whatever order, at most one succeeded.
C1_Uniqueness == \A i \in Index : Cardinality(Wins(i)) <= 1

\* A cell won once and attempted three times, by claim and by ownerClaim, one
\* caller submitting twice.
C1_Witness ==
    \E i \in Cells :
        /\ Cardinality(Wins(i)) = 1
        /\ Cardinality(Attempts(i)) = 3
        /\ \E p \in Attempts(i) : receipts[p].op = "ownerClaim" /\ receipts[p].sender = owner
        /\ \E p, q \in Attempts(i) :
              /\ p # q
              /\ receipts[p].op = "claim" /\ receipts[q].op = "claim"
              /\ receipts[p].sender = receipts[q].sender

\* C2: in every reachable state totalSupply is at most MAX_SUPPLY, after any
\* sequence of claim, ownerClaim and transfer calls.
C2_CapInvariant == totalSupply <= MAX_SUPPLY

\* The registry filled to the cap with an ownerClaim among the successful
\* calls.
C2_Witness ==
    /\ totalSupply = MAX_SUPPLY
    /\ \E p \in DOMAIN receipts : receipts[p].op = "ownerClaim" /\ receipts[p].res = "ok"

\* C3: a claim executed in a state where totalSupply = MAX_SUPPLY fails with
\* "Max supply reached", whatever the state of the cell it names.
C3_CapReachedAtCap ==
    [][(Executes /\ Last.op = "claim" /\ totalSupply = MAX_SUPPLY)
          => Last.res = "Max supply reached"]_vars

\* C4: in every reachable state totalSupply equals the number of cell indices
\* whose claimedBy is not address(0).
C4_CountConsistency == totalSupply = Cardinality(ClaimedCells)

\* Cells claimed by claim and by ownerClaim, and a token then transferred
\* away from its claimant.
C4_Witness ==
    /\ Cardinality(ClaimedCells) >= 1
    /\ \E p \in DOMAIN receipts : receipts[p].op = "transfer" /\ receipts[p].res = "ok"
    /\ \E i \in ClaimedCells : balances[claimedBy[i]] = 0

\* C5: a cell no call has won is not claimed, and a cell won with claimant a
\* has claimedBy = a and isClaimed true in every state from then on.
C5_Permanence ==
    \A i \in Index :
        /\ Wins(i) = {} => ~isClaimed(i)
        /\ \A p \in Wins(i) : claimedBy[i] = receipts[p].to /\ isClaimed(i)

\* Cell i won by a claim, then the token transferred to another holder, then
\* another caller's claim on i.
C5_Witness ==
    \E i \in Cells, p, q, r \in DOMAIN receipts :
        /\ p < q /\ q < r
        /\ p \in Wins(i) /\ receipts[p].op = "claim"
        /\ receipts[q].op = "transfer" /\ receipts[q].res = "ok"
        /\ receipts[q].sender = receipts[p].to
        /\ receipts[r].op = "claim" /\ receipts[r].idx = i
        /\ receipts[r].sender # receipts[p].sender
        /\ claimedBy[i] = receipts[p].to

\* Two claim calls p, q on the same in-range cell that was free when the
\* first of them executed.
Race(p, q) ==
    /\ p < q
    /\ receipts[p].op = "claim" /\ receipts[q].op = "claim"
    /\ receipts[p].idx = receipts[q].idx
    /\ receipts[p].idx < MAX_SUPPLY
    /\ \A w \in Wins(receipts[p].idx) : w >= p

\* C6: of two claim calls on the same free in-range cell, in whichever order
\* they execute, exactly one succeeds, the other fails with "already
\* claimed", and the two together add exactly 1 to totalSupply.
C6_RaceOutcome ==
    \A p, q \in DOMAIN receipts :
        Race(p, q) =>
            /\ receipts[p].res = "ok"
            /\ receipts[q].res = "already claimed"
            /\ Minted(p) + Minted(q) = 1

\* Two callers raced for a cell after another cell had been claimed.
C6_Witness ==
    \E p, q \in DOMAIN receipts :
        /\ Race(p, q)
        /\ receipts[p].sender # receipts[q].sender
        /\ p > 1 /\ receipts[p - 1].res = "ok" /\ IsCellCall(receipts[p - 1])

\* C7: once a claim(i) has failed with "already claimed", every later
\* claim(i), by any caller, fails with "already claimed", and leaves
\* claimedBy, the balances, totalSupply and the events unchanged.
C7_FailedResubmission ==
    [][\A i \in Index :
          ( /\ \E p \in DOMAIN receipts :
                  /\ receipts[p].op = "claim" /\ receipts[p].idx = i
                  /\ receipts[p].res = "already claimed"
            /\ Executes /\ Last.op = "claim" /\ Last.idx = i )
          => (Last.res = "already claimed" /\ UNCHANGED regVars)]_vars

\* A claim failed with "already claimed" twice, for two different callers.
C7_Witness ==
    \E p, q \in DOMAIN receipts :
        /\ p < q
        /\ receipts[p].op = "claim" /\ receipts[q].op = "claim"
        /\ receipts[p].idx = receipts[q].idx
        /\ receipts[p].res = "already claimed" /\ receipts[q].res = "already claimed"
        /\ receipts[p].sender # receipts[q].sender

\* ------------------------------------------- session (under SpecSession)
\* C8: for every cell i, once view(i) is true it is true in every later
\* state of the session, whichever claim completion, lookup resolution or
\* lookup failure comes next.
C8_ViewMonotone == [][\A i \in Cells : view(i) => view(i)']_vars

\* A cell shown claimed through clicked alone, with a lookup of it still
\* outstanding and another cell confirmed remotely.
C8_Witness ==
    \E i, j \in Viewport :
        /\ i \in clicked /\ ~(i \in remoteClaimedSet)
        /\ BagIn(Query(i), lookups)
        /\ j \in remoteClaimedSet /\ j # i

\* The claim handler has settled for cell i: no invocation for i is awaiting
\* refreshSupply or showing its alert.
Settled(i) ==
    \A h \in Handlers : calls[h].idx = i => ~(calls[h].pc \in {"refresh", "alert"})

\* C9: once the registry has confirmed the session's claim(i) and the handler
\* has settled, view(i) is true, whether or not the supply refresh or any
\* lookup succeeded.
C9_OptimisticAfterClaim ==
    \A i \in Viewport : (claimedBy[i] = account /\ Settled(i)) => view(i)

\* C10: for every cell i, at most one isClaimed(i) query of the session is
\* outstanding at any time.
C10_OneLookupPerIndex == \A i \in Viewport : CopiesIn(Query(i), lookups) <= 1

\* ------------------------------------------------- registry (under Spec)
\* C11: for every reachable registry state, cell index i and beneficiary b
\* that could call claim itself, ownerClaim(b, i) by the owner succeeds
\* exactly when the three requires of claim(i) called by b pass, and on
\* success leaves the claimant map and the claimed count that claim(i) by b
\* leaves: claimedBy with i set to b, totalSupply raised by 1.
C11_OwnerClaimSameTransition ==
    [][(Executes /\ Last.op = "ownerClaim" /\ Last.sender = owner /\ Last.to \in Accounts)
          => /\ (Last.res = "ok") <=>
                   ( /\ Last.idx < MAX_SUPPLY
                     /\ claimedBy[Last.idx] = ZERO
                     /\ totalSupply < MAX_SUPPLY )
             /\ (Last.res = "ok") =>
                   ( /\ claimedBy' = [claimedBy EXCEPT ![Last.idx] = Last.to]
                     /\ totalSupply' = totalSupply + 1 )]_vars

\* The owner claimed a cell for another account, and an ownerClaim on a
\* claimed cell failed.
C11_Witness ==
    \E p, q \in DOMAIN receipts :
        /\ receipts[p].op = "ownerClaim" /\ receipts[p].res = "ok"
        /\ receipts[p].to # owner
        /\ receipts[q].op = "ownerClaim" /\ receipts[q].sender = owner
        /\ receipts[q].to \in Accounts /\ receipts[q].res = "already claimed"

\* C12: every successful claim, by claim or by ownerClaim, emits exactly one
\* Claimed event: in every reachable state the emitted (claimant, index)
\* pairs are the claimed cells with their claimants, one event each.
C12_EventCompleteness ==
    /\ {events[k] : k \in DOMAIN events} = {<<claimedBy[i], i>> : i \in ClaimedCells}
    /\ Len(events) = Cardinality(ClaimedCells)

\* ------------------------------------------- session (under SpecSession)
\* C13: every index in clicked is a cell the registry records as claimed by
\* the session's account; a claim that was rejected or failed in submission
\* adds nothing to clicked.
C13_ClickedOnlyConfirmed == \A i \in clicked : claimedBy[i] = account

\* One claim of the session was confirmed and is in clicked, another was
\* rejected by the registry and its alert is showing.
C13_Witness ==
    \E i \in clicked, h \in Handlers :
        /\ calls[h].pc = "alert"
        /\ ~(calls[h].idx \in clicked)
        /\ claimedBy[calls[h].idx] = Deployer

\* No alert dialog opens in the step.
NoNewAlert == \A h \in Handlers : calls'[h].pc = "alert" => calls[h].pc = "alert"

\* C14: a rejected isClaimed(i) query changes neither remoteClaimedSet nor
\* clicked, opens no alert, and leaves cell i firing a query at its next
\* render exactly as before.
C14_LookupFailureAbsorbed ==
    [][\A i \in Viewport :
          (lookups' # lookups /\ LookupCatch(Query(i))) =>
             /\ UNCHANGED <<remoteClaimedSet, clicked>>
             /\ NoNewAlert
             /\ Fires(i)' = Fires(i)]_vars

\* A query of a claimed cell the cache does not hold yet is outstanding,
\* with a confirmed claim of the session in clicked.
C14_Witness ==
    \E q \in LookupSet :
        /\ isClaimed(q.idx) /\ Fires(q.idx)
        /\ clicked # {} /\ ~(q.idx \in clicked)
        /\ Running

\* C15: the registry changes in the step that executes the session's
\* transaction exactly when its own requires pass on its state at that step,
\* whatever uiTotalSupply and uiMaxSupply hold; and no step of the system
\* writes a claimed cell or mints at the cap.
C15_CapCheckAdvisory ==
    [][/\ \A h \in Handlers :
             (calls[h].pc = "wait" /\ TxMined(h)) =>
                ( (regVars' # regVars) <=>
                     ( /\ calls[h].idx < MAX_SUPPLY
                       /\ claimedBy[calls[h].idx] = ZERO
                       /\ totalSupply < MAX_SUPPLY ) )
       /\ (claimedBy' # claimedBy) =>
             \A i \in Cells :
                claimedBy'[i] # claimedBy[i] =>
                   (claimedBy[i] = ZERO /\ totalSupply < MAX_SUPPLY)]_vars

\* The session's transaction for a cell is in flight while the registry is
\* full and the cell claimed by another account, and the session still shows
\* a supply below the cap.
C15_Witness ==
    \E h \in Handlers :
        /\ calls[h].pc = "wait"
        /\ claimedBy[calls[h].idx] = Deployer
        /\ totalSupply = MAX_SUPPLY
        /\ uiTotalSupply < uiMaxSupply

C17_CacheSound == \A i \in Cells : view(i) => isClaimed(i)

\* remoteClaimedSet holds a cell claimed by another account and clicked a
\* cell claimed by the session that no query has confirmed yet.
C17_Witness ==
    \E i \in remoteClaimedSet, j \in clicked :
        /\ claimedBy[i] = Deployer
        /\ claimedBy[j] = account
        /\ ~(j \in remoteClaimedSet)

\* C18: every resolution adds its index to the set as it is at that moment:
\* a query answered claimed = true leaves remoteClaimedSet with its index and
\* all it held, a completed claim leaves clicked with its index and all it
\* held, and no step removes an index from either set.
C18_NoLostUpdate ==
    [][/\ remoteClaimedSet \subseteq remoteClaimedSet'
       /\ clicked \subseteq clicked'
       /\ \A i \in Viewport :
             (lookups' # lookups /\ isClaimed(i) /\ LookupThen(Query(i))) =>
                i \in remoteClaimedSet'
       /\ \A h \in Handlers :
             (calls[h].pc = "refresh" /\ RefreshDone(h)) => calls[h].idx \in clicked']_vars

\* Queries of two claimed cells and a claim completion are outstanding
\* together, before the next render.
C18_Witness ==
    /\ \A i \in Viewport : BagIn(Query(i), lookups) /\ isClaimed(i) /\ Fires(i)
    /\ \E h \in Handlers : calls[h].pc = "refresh"
    /\ rendered # Snapshot

\* C19: a session has at most one claim transaction submitted and unresolved
\* at any time, two requests made through the same handler before it is
\* re-created included.
C19_SingleClaimInFlight == Cardinality({h \in Handlers : calls[h].pc = "wait"}) <= 1

\* C20: under SpecLive (the session keeps rendering cell i and its queries
\* resolve at some point), once cell i is claimed in the registry it is
\* eventually in remoteClaimedSet with view(i) true, and stays so.
C20_BackfillLiveness ==
    \A i \in Viewport : isClaimed(i) ~> [](i \in remoteClaimedSet /\ view(i))

\* A cell is claimed in the registry by another account and the session
\* holds it in remoteClaimedSet only, after a query it fired resolved.
C20_Witness ==
    \E i \in Viewport :
        /\ claimedBy[i] = Deployer
        /\ i \in remoteClaimedSet /\ ~(i \in clicked)
        /\ view(i)
        /\ contract

====
